---- MODULE Spec2Model ----
(***************************************************************************)
(* Model of src/lib.rs of pandas-primes: the primality test               *)
(* is_prime_scalar and the two column entry points is_prime (mask) and    *)
(* are_all_primes (short-circuiting aggregate) over a nullable uint64     *)
(* Arrow array, including the type check of the input adapter             *)
(* pyarrow_to_arrow2.                                                     *)
(*                                                                        *)
(* A behaviour is one host session.  Either the host calls                *)
(* is_prime_scalar(n) directly (harness = "scalar"), and the function is  *)
(* executed statement by statement, or it holds one Arrow array and calls *)
(* each of is_prime and are_all_primes on it at most once, in either      *)
(* order (harness = "column"); a column call executes one loop iteration  *)
(* per step.                                                              *)
(***************************************************************************)
EXTENDS Integers, Sequences, FiniteSets

\* ---------------------------------------------------------------- bounds

\* Largest n passed to a direct call of is_prime_scalar.
MaxN == 130
\* Largest value stored in a slot of the array.
MaxVal == 7
\* Longest array.
MaxLen == 3

\* ----------------------------------------------------------- data model

\* A slot of the UInt64Array as the iterator yields it: Option<&u64>.
\* <<>> is None (the validity bit is unset), <<v>> is Some(v).
None == <<>>
Some(v) == <<v>>
IsSome(slot) == Len(slot) = 1
Unwrap(slot) == slot[1]

Slots == {None} \cup {Some(v) : v \in 0..MaxVal}
Arrays == UNION {[1..k -> Slots] : k \in 0..MaxLen}

\* Element types the imported array may carry.
DataTypes == {"UInt64", "Int64"}

\* The BooleanArray handed back by is_prime; "unset" before it returns.
NoArray == [values |-> <<>>, validity |-> "unset"]

VARIABLES
    harness,    \* "scalar" or "column": what the host session exercises
    n,          \* is_prime_scalar: the argument
    spc,        \* is_prime_scalar: "entry", "loop", "done"
    limit,      \* is_prime_scalar: the local limit
    i,          \* is_prime_scalar: the loop variable
    sret,       \* is_prime_scalar: the value returned
    dtype,      \* data type of the host's array
    arr,        \* the slots of the host's array
    call,       \* the column entry point called last ("none" before any)
    pc,         \* "idle", "import", "iter", "panicked"
    idx,        \* position of the array iterator (next slot to yield)
    bitmap,     \* is_prime: the MutableBitmap being filled
    examined,   \* indices the current call's iterator has yielded, in order
    returned,   \* entry points that have returned normally
    out_mask,   \* the array is_prime returned
    out_all     \* the boolean are_all_primes returned

vars == <<harness, n, spc, limit, i, sret, dtype, arr, call, pc, idx,
          bitmap, examined, returned, out_mask, out_all>>

scalarVars == <<n, spc, limit, i, sret>>
columnVars == <<dtype, arr, call, pc, idx, bitmap, examined, returned,
                out_mask, out_all>>

\* ------------------------------------------------------ is_prime_scalar

\* (n as f64).powf(0.5).ceil() as u64.  The cast to f64 is exact below
\* 2^53 and the square root of a perfect square is exact, so within the
\* bounds of this model the value is the least r with r * r >= n.
CeilSqrt(m) == CHOOSE r \in 0..m : r * r >= m /\ \A q \in 0..(r - 1) : q * q < m

Limit(m) == CeilSqrt(m)

\* n == 0 || n == 1
IsZeroOrOne(m) == m = 0 \/ m = 1

\* n == 2 || n == 3
IsTwoOrThreeNoThree(m) == m = 2
IsTwoOrThree(m) == m = 2 \/ m = 3

\* n % 2 == 0 || n % 3 == 0
DivisibleByTwoOrThree(m) == m % 2 = 0 \/ m % 3 = 0

\* First value of the range 5..limit.
RangeStart == 5

\* n % i == 0 || n % (i + 2) == 0
HasFactorAtFirstOnly(m, k) == m % k = 0
HasFactorAt(m, k) == m % k = 0 \/ m % (k + 2) = 0

\* step_by(6): the next value the iterator yields.
NextCandidateStuck(k) == k
NextCandidate(k) == k + 6

\* for i in (5..limit).step_by(6) { ... } return true, from candidate k on.
RECURSIVE LoopFrom(_, _, _)
LoopFrom(m, k, lim) ==
    IF k >= lim THEN TRUE
    ELSE IF HasFactorAt(m, k) THEN FALSE
    ELSE LoopFrom(m, NextCandidate(k), lim)

\* The function as a value.
is_prime_scalar(m) ==
    IF IsZeroOrOne(m) THEN FALSE
    ELSE IF IsTwoOrThree(m) THEN TRUE
    ELSE IF DivisibleByTwoOrThree(m) THEN FALSE
    ELSE LoopFrom(m, RangeStart, Limit(m))

\* The function statement by statement.
ScalarReturn(b) ==
    /\ sret' = b
    /\ spc' = "done"
    /\ UNCHANGED <<n, limit, i>>

\* Lines 80-84: the three early returns, else limit is computed and the
\* range iterator starts.
ScalarEntry ==
    /\ harness = "scalar"
    /\ spc = "entry"
    /\ IF IsZeroOrOne(n) THEN ScalarReturn(FALSE)
       ELSE IF IsTwoOrThree(n) THEN ScalarReturn(TRUE)
       ELSE IF DivisibleByTwoOrThree(n) THEN ScalarReturn(FALSE)
       ELSE /\ limit' = Limit(n)
            /\ i' = RangeStart
            /\ spc' = "loop"
            /\ UNCHANGED <<n, sret>>
    /\ UNCHANGED <<harness>>
    /\ UNCHANGED columnVars

\* Lines 85-88: one iteration of the loop body.
ScalarLoopBody ==
    /\ harness = "scalar"
    /\ spc = "loop"
    /\ i < limit
    /\ IF HasFactorAt(n, i) THEN ScalarReturn(FALSE)
       ELSE /\ i' = NextCandidate(i)
            /\ UNCHANGED <<n, spc, limit, sret>>
    /\ UNCHANGED <<harness>>
    /\ UNCHANGED columnVars

\* Line 90: the range is exhausted.
ScalarLoopExit ==
    /\ harness = "scalar"
    /\ spc = "loop"
    /\ i >= limit
    /\ ScalarReturn(TRUE)
    /\ UNCHANGED <<harness>>
    /\ UNCHANGED columnVars

\* ------------------------------------------------------ pyarrow_to_arrow2

\* *array.data_type() != DataType::UInt64
TypeCheckFailsNever(dt) == FALSE
TypeCheckFails(dt) == dt # "UInt64"

\* The adapter: panics on a type mismatch, else hands out the iterator.
pyarrow_to_arrow2 ==
    /\ harness = "column"
    /\ pc = "import"
    /\ IF TypeCheckFails(dtype)
       THEN pc' = "panicked" /\ UNCHANGED idx
       ELSE pc' = "iter" /\ idx' = 1
    /\ UNCHANGED <<harness, dtype, arr, call, bitmap, examined, returned,
                   out_mask, out_all>>
    /\ UNCHANGED scalarVars

\* --------------------------------------------------------------- is_prime

\* The bit pushed for one slot (lines 106-110).
MaskBitNullIsTrue(slot) == IF IsSome(slot) THEN is_prime_scalar(Unwrap(slot)) ELSE TRUE
MaskBit(slot) == IF IsSome(slot) THEN is_prime_scalar(Unwrap(slot)) ELSE FALSE

\* Line 103: the bitmap is allocated, then the adapter is called.
CallIsPrime ==
    /\ harness = "column"
    /\ pc = "idle"
    /\ "is_prime" \notin returned
    /\ call' = "is_prime"
    /\ bitmap' = <<>>
    /\ examined' = <<>>
    /\ pc' = "import"
    /\ UNCHANGED <<harness, dtype, arr, idx, returned, out_mask, out_all>>
    /\ UNCHANGED scalarVars

\* Lines 105-111: one iteration.
IsPrimeStep ==
    /\ harness = "column"
    /\ call = "is_prime"
    /\ pc = "iter"
    /\ idx <= Len(arr)
    /\ examined' = Append(examined, idx)
    /\ bitmap' = Append(bitmap, MaskBit(arr[idx]))
    /\ idx' = idx + 1
    /\ UNCHANGED <<harness, dtype, arr, call, pc, returned, out_mask, out_all>>
    /\ UNCHANGED scalarVars

\* Lines 112-114: BooleanArray::new(DataType::Boolean, bitmap.into(), None).
IsPrimeReturn ==
    /\ harness = "column"
    /\ call = "is_prime"
    /\ pc = "iter"
    /\ idx > Len(arr)
    /\ out_mask' = [values |-> bitmap, validity |-> "None"]
    /\ returned' = returned \cup {"is_prime"}
    /\ pc' = "idle"
    /\ UNCHANGED <<harness, dtype, arr, call, idx, bitmap, examined, out_all>>
    /\ UNCHANGED scalarVars

\* --------------------------------------------------------- are_all_primes

\* if let Some(number) = array_element { if !is_prime_scalar(*number) ... }
SlotFailsInverted(slot) == IsSome(slot) /\ is_prime_scalar(Unwrap(slot))
SlotFailsNullToo(slot) == ~IsSome(slot) \/ ~is_prime_scalar(Unwrap(slot))
SlotFails(slot) == IsSome(slot) /\ ~is_prime_scalar(Unwrap(slot))

\* Line 129: the adapter is called first.
CallAreAllPrimes ==
    /\ harness = "column"
    /\ pc = "idle"
    /\ "are_all_primes" \notin returned
    /\ call' = "are_all_primes"
    /\ examined' = <<>>
    /\ pc' = "import"
    /\ UNCHANGED <<harness, dtype, arr, idx, bitmap, returned, out_mask, out_all>>
    /\ UNCHANGED scalarVars

\* What one iteration does after reading slot idx (lines 130-132).
AfterSlotNoEarlyExit ==
    IF SlotFails(arr[idx])
    THEN /\ out_all' = FALSE
         /\ returned' = returned \cup {"are_all_primes"}
         /\ idx' = idx + 1
         /\ UNCHANGED pc
    ELSE /\ idx' = idx + 1
         /\ UNCHANGED <<pc, returned, out_all>>
AfterSlot ==
    IF SlotFails(arr[idx])
    THEN /\ out_all' = FALSE
         /\ returned' = returned \cup {"are_all_primes"}
         /\ pc' = "idle"
         /\ UNCHANGED idx
    ELSE /\ idx' = idx + 1
         /\ UNCHANGED <<pc, returned, out_all>>

\* Lines 129-133: one iteration.
AreAllPrimesStep ==
    /\ harness = "column"
    /\ call = "are_all_primes"
    /\ pc = "iter"
    /\ idx <= Len(arr)
    /\ examined' = Append(examined, idx)
    /\ AfterSlot
    /\ UNCHANGED <<harness, dtype, arr, call, bitmap, out_mask>>
    /\ UNCHANGED scalarVars

\* Line 134: Ok(true).
AreAllPrimesReturn ==
    /\ harness = "column"
    /\ call = "are_all_primes"
    /\ pc = "iter"
    /\ idx > Len(arr)
    /\ out_all' = TRUE
    /\ returned' = returned \cup {"are_all_primes"}
    /\ pc' = "idle"
    /\ UNCHANGED <<harness, dtype, arr, call, idx, bitmap, examined, out_mask>>
    /\ UNCHANGED scalarVars

\* ---------------------------------------------------------- specification

ScalarInit ==
    /\ harness = "scalar"
    /\ n \in 0..MaxN
    /\ spc = "entry"
    /\ limit = 0
    /\ i = 0
    /\ sret = FALSE
    /\ dtype = "UInt64"
    /\ arr = <<>>
    /\ call = "none"
    /\ pc = "idle"
    /\ idx = 1
    /\ bitmap = <<>>
    /\ examined = <<>>
    /\ returned = {}
    /\ out_mask = NoArray
    /\ out_all = FALSE

ColumnInit ==
    /\ harness = "column"
    /\ n = 0
    /\ spc = "done"
    /\ limit = 0
    /\ i = 0
    /\ sret = FALSE
    /\ dtype \in DataTypes
    /\ arr \in Arrays
    /\ call = "none"
    /\ pc = "idle"
    /\ idx = 1
    /\ bitmap = <<>>
    /\ examined = <<>>
    /\ returned = {}
    /\ out_mask = NoArray
    /\ out_all = FALSE

Init == ScalarInit \/ ColumnInit

Next ==
    \/ ScalarEntry
    \/ ScalarLoopBody
    \/ ScalarLoopExit
    \/ CallIsPrime
    \/ CallAreAllPrimes
    \/ pyarrow_to_arrow2
    \/ IsPrimeStep
    \/ IsPrimeReturn
    \/ AreAllPrimesStep
    \/ AreAllPrimesReturn

Spec == Init /\ [][Next]_vars

\* The code is sequential and nothing suspends it: a step that can be
\* taken is taken.
FairSpec == Spec /\ WF_vars(Next)

\* ------------------------------------------------------------ vocabulary

\* n is prime in the standard sense: n >= 2 and no divisor d, 1 < d < n.
IsPrimeMath(m) == m >= 2 /\ \A d \in 2..(m - 1) : m % d # 0

IsSquare(m) == \E r \in 0..m : r * r = m

IsComposite(m) == m >= 2 /\ ~IsPrimeMath(m)

\* The smallest divisor of m above 1 (a prime).
SmallestFactor(m) == CHOOSE d \in 2..m : m % d = 0 /\ \A e \in 2..(d - 1) : m % e # 0

\* A direct call of is_prime_scalar has returned.
ScalarDone == harness = "scalar" /\ spc = "done"

\* A slot holding a value is_prime_scalar rejects.
PresentNonPrime(slot) == slot # None /\ ~is_prime_scalar(slot[1])

NoAbsent(a) == \A k \in DOMAIN a : a[k] # None

MaskReturned == "is_prime" \in returned
AllReturned == "are_all_primes" \in returned

\* The statement-by-statement execution and the value is_prime_scalar(n)
\* used by the column entry points agree.
ScalarAgrees == ScalarDone => sret = is_prime_scalar(n)

\* ----------------------------------------------------------------- claims

\* C1: for every n, is_prime_scalar(n) returns true if and only if n is
\* prime in the standard mathematical sense; 0, 1 and every composite give
\* false.
C1_TrueIffPrime == ScalarDone => (sret <=> IsPrimeMath(n))

\* C2: for every k >= 2, is_prime_scalar(k * k) returns false: no perfect
\* square escapes the bound limit = ceil(sqrt(n)) with the range 5..limit.
C2_SquaresRejected == (ScalarDone /\ n >= 4 /\ IsSquare(n)) => sret = FALSE

\* C3: is_prime_scalar never rejects a prime: for every prime n the call
\* returns true.
C3_PrimesAccepted == (ScalarDone /\ IsPrimeMath(n)) => sret = TRUE

C3_Witness == ScalarDone /\ n = 97 /\ limit = 10 /\ sret = TRUE

\* C4: when is_prime returns, its output has no null markers, has the
\* length of the input, and holds at every index is_prime_scalar of the
\* slot's value when the slot is present and false when it is absent.
C4_Mask ==
    MaskReturned =>
        /\ out_mask.validity = "None"
        /\ Len(out_mask.values) = Len(arr)
        /\ \A k \in 1..Len(arr) :
              out_mask.values[k] \in BOOLEAN
              /\ out_mask.values[k] =
                    IF arr[k] = None THEN FALSE ELSE is_prime_scalar(arr[k][1])

C4_Witness ==
    /\ MaskReturned
    /\ arr = <<Some(4), None, Some(7)>>
    /\ out_mask.values = <<FALSE, FALSE, TRUE>>

C6_Agree ==
    (MaskReturned /\ AllReturned /\ NoAbsent(arr)) =>
        (out_all <=> \A k \in 1..Len(out_mask.values) : out_mask.values[k])

C6_Witness ==
    /\ MaskReturned
    /\ AllReturned
    /\ arr = <<Some(3), Some(4)>>
    /\ out_all = FALSE
    /\ out_mask.values = <<TRUE, FALSE>>

\* C7: are_all_primes reads the slots in input order, and at the first
\* present value is_prime_scalar rejects it returns false at once: every
\* slot read before the last one read passed, a rejected slot is the last
\* one read, and false is returned exactly there.
C7_ShortCircuit ==
    call = "are_all_primes" =>
        /\ examined = [k \in 1..Len(examined) |-> k]
        /\ \A k \in 1..(Len(examined) - 1) : ~PresentNonPrime(arr[examined[k]])
        /\ (Len(examined) >= 1 /\ PresentNonPrime(arr[examined[Len(examined)]]))
              => (AllReturned /\ out_all = FALSE /\ pc = "idle")
        /\ (AllReturned /\ out_all = FALSE)
              => (Len(examined) >= 1 /\ PresentNonPrime(arr[examined[Len(examined)]]))

C7_Witness ==
    /\ call = "are_all_primes"
    /\ arr = <<Some(4), Some(7)>>
    /\ AllReturned
    /\ out_all = FALSE
    /\ examined = <<1>>

C9_NoFault ==
    (harness = "scalar" /\ spc = "loop") =>
        /\ i >= 5
        /\ i < limit + 6
        /\ (limit - 1) * (limit - 1) < n
        /\ limit <= n
        /\ i < limit => (i # 0 /\ i + 2 # 0 /\ i + 2 <= n)

C9_Progress ==
    (harness = "scalar" /\ spc = "loop" /\ spc' = "loop") => (i' = i + 6 /\ i' > i)

C9_Total ==
    /\ []C9_NoFault
    /\ [][C9_Progress]_vars
    /\ <>(harness = "scalar" => (spc = "done" /\ sret \in BOOLEAN))

C9_Witness == ScalarDone /\ n = 127 /\ i = 17 /\ sret = TRUE

\* C10: every composite n that is not a perfect square is rejected: its
\* smallest prime factor is below limit and is 2, 3, or one of the tested
\* candidates i, i + 2 with i in {5, 11, 17, ...}, i < limit; is_prime_scalar
\* and primality disagree only at perfect squares.
C10_NonSquares ==
    /\ (ScalarDone /\ IsComposite(n) /\ ~IsSquare(n)) => sret = FALSE
    /\ (ScalarDone /\ sret # IsPrimeMath(n)) => IsSquare(n)
    /\ (harness = "scalar" /\ spc = "loop" /\ IsComposite(n) /\ ~IsSquare(n)) =>
          /\ SmallestFactor(n) < limit
          /\ \E k \in RangeStart..(limit - 1) :
                /\ k % 6 = 5
                /\ SmallestFactor(n) \in {k, k + 2}

C10_Witness == ScalarDone /\ n = 77 /\ limit = 9 /\ sret = FALSE

====
